---- MODULE Spec2Model ----
(***************************************************************************)
(* Model of the Custom-Dropdown component (src/script.js).                 *)
(*                                                                         *)
(* A page holds some dropdown elements written as the README's "Basic HTML *)
(* Structure" shows them (class "dropdown", data-dropdown, a trigger with  *)
(* aria-expanded="false", options without aria-selected="true").           *)
(* Every dropdown is one record: the fields of its Dropdown object         *)
(* together with the classes and attributes the object writes to its DOM   *)
(* subtree.  Options are identified by their position in this.options; an  *)
(* option element is modelled by that position.                            *)
(*                                                                         *)
(* JavaScript runs each event handler to completion.  Two places inside a  *)
(* handler are kept as separate steps because properties of the component  *)
(* speak about them: the point in open() between the close-others loop and *)
(* the instance's own state change, and the point in selectOption() just   *)
(* before dispatchEvent.  The variable pc says where the running handler   *)
(* is; no other handler starts until pc is idle again.                     *)
(***************************************************************************)
EXTENDS Integers, Sequences, FiniteSets, TLC

VARIABLES
    dropdowns,  \* dropdowns[d]: the Dropdown object d and its DOM subtree
    pc,         \* position of the running handler (Idle between handlers)
    emitted,    \* 'dropdown:select' events dispatched by the current/last handler
    docHeard,   \* those of them delivered to a document-level listener
    threw       \* the current/last handler ended in an uncaught TypeError

vars == <<dropdowns, pc, emitted, docHeard, threw>>

\* ---------------------------------------------------------------- bounds
\* Spec: every handler and method, destroy() included, on pages of
\* SmallInstances dropdowns, the first with at most SmallOptions options; at
\* most MaxDestroyed of them are destroyed.
SmallInstances == 2
SmallOptions == 2
MaxDestroyed == 1
\* SpecLive: every handler and method but destroy(), on pages of
\* NumInstances dropdowns.
NumInstances == 3

\* ------------------------------------------------------------- constants
\* this.focusedIndex = -1: no option has keyboard focus
NoIndex == -1
\* null / undefined option reference (this.selectedOption = null, options[i]
\* for an i outside the array): both are falsy and indexOf gives -1 for them
NoOption == -1
\* this.selectedValue = null
Null == <<>>
\* a click target outside every dropdown element
Background == 0

Keys == {"Enter", " ", "Escape", "ArrowDown", "ArrowUp", "Home", "End", "Tab"}

\* option.dataset.value of option i of dropdown d
DataValue(d, i) == <<"data-value", d, i>>
\* option.innerHTML of option i of dropdown d
InnerHTML(d, i) == <<"innerHTML", d, i>>
\* valueDisplay.textContent as written in the markup (the placeholder)
PlaceholderText(d) == <<"textContent", d>>

Min(a, b) == IF a < b THEN a ELSE b
Max(a, b) == IF a > b THEN a ELSE b

\* ------------------------------------------------------- handler position
Idle == [kind |-> "idle", inst |-> 0, option |-> NoOption]
AtOpen(d) == [kind |-> "open", inst |-> d, option |-> NoOption]
AtDispatch(d, i) == [kind |-> "dispatch", inst |-> d, option |-> i]

\* What a handler (or the part of it up to the next kept step) leaves behind.
Outcome(D, p, t) == [D |-> D, pc |-> p, threw |-> t]

\* ------------------------------------------------------------ construction
\* constructor + init(): the object's fields and the DOM state of its element
Dropdown(d, n) ==
    [ nopts          |-> n,
      isOpen         |-> FALSE,
      selectedValue  |-> Null,
      selectedOption |-> NoOption,
      focusedIndex   |-> NoIndex,
      placeholder    |-> PlaceholderText(d),
      attached       |-> TRUE,
      clsOpen        |-> FALSE,
      ariaExpanded   |-> "false",
      clsSelected    |-> {},
      ariaSelected   |-> {},
      clsFocused     |-> {},
      display        |-> PlaceholderText(d),
      clsPlaceholder |-> TRUE ]

\* initDropdowns(): one Dropdown per [data-dropdown] element, stored on the
\* element as _dropdownInstance
initDropdowns(layout) == [d \in DOMAIN layout |-> Dropdown(d, layout[d])]

\* Pages of k dropdowns: one with three options in every dropdown, one whose
\* dropdowns have 0, 1, 2, 3, 0, ... options.
Layouts(k) ==
    { [d \in 1..k |-> 3], [d \in 1..k |-> (d - 1) % 4] }

\* Pages of k dropdowns: the first with n options, 0 <= n <= m, the others
\* with one option (none if n = 0).
SmallLayouts(k, m) ==
    { [d \in 1..k |-> IF d = 1 THEN n ELSE Min(n, 1)] : n \in 0..m }

\* ------------------------------------------------------------------ close
\* close() that also forgets the selection
closeForgetSelection(s) ==
    IF ~s.isOpen THEN s
    ELSE [s EXCEPT !.isOpen = FALSE,
                   !.clsOpen = FALSE,
                   !.ariaExpanded = "false",
                   !.clsFocused = {},
                   !.focusedIndex = NoIndex,
                   !.selectedOption = NoOption,
                   !.selectedValue = Null]

\* close() that leaves focusedIndex as keyboard navigation set it
closeKeepFocus(s) ==
    IF ~s.isOpen THEN s
    ELSE [s EXCEPT !.isOpen = FALSE,
                   !.clsOpen = FALSE,
                   !.ariaExpanded = "false",
                   !.clsFocused = {}]

close(s) ==
    IF ~s.isOpen THEN s
    ELSE [s EXCEPT !.isOpen = FALSE,
                   !.clsOpen = FALSE,
                   !.ariaExpanded = "false",
                   !.clsFocused = {},
                   !.focusedIndex = NoIndex]

\* ------------------------------------------------------------------- open
\* this.options.indexOf(option)
indexOf(s, option) == IF option \in 0..(s.nopts - 1) THEN option ELSE -1

\* the close-others loop forgetting the selection of the instances it closes
closeOthersForget(D, d) ==
    [x \in DOMAIN D |->
        IF x # d /\ D[x].clsOpen THEN closeForgetSelection(D[x]) ELSE D[x]]

\* open() without its close-others loop
closeOthersSkipped(D, d) == D

\* The loop over document.querySelectorAll('.dropdown.is-open'): every other
\* element carrying the is-open class has its instance closed.
closeOthers(D, d) ==
    [x \in DOMAIN D |-> IF x # d /\ D[x].clsOpen THEN close(D[x]) ELSE D[x]]

\* open() without its "if (this.isOpen) return"
openUnguarded(D, d) == Outcome(closeOthers(D, d), AtOpen(d), FALSE)

\* open() up to the end of the loop
open(D, d) ==
    IF D[d].isOpen THEN Outcome(D, Idle, FALSE)
    ELSE Outcome(closeOthers(D, d), AtOpen(d), FALSE)

\* the rest of open(): the instance's own state
openSelf(s) ==
    [s EXCEPT !.isOpen = TRUE,
              !.clsOpen = TRUE,
              !.ariaExpanded = "true",
              !.focusedIndex = IF s.selectedOption # NoOption
                               THEN indexOf(s, s.selectedOption)
                               ELSE -1]

\* ----------------------------------------------------------- selectOption
\* "Remove previous selection"
unselectPrevious(s) ==
    IF s.selectedOption # NoOption
    THEN [s EXCEPT !.clsSelected = @ \ {s.selectedOption},
                   !.ariaSelected = @ \ {s.selectedOption}]
    ELSE s

\* selectOption that does not remove the previous selection's marks
selectUpdateKeepMarks(s, d, option) ==
    close([s EXCEPT
              !.selectedOption = option,
              !.selectedValue = DataValue(d, option),
              !.clsSelected = @ \cup {option},
              !.ariaSelected = @ \cup {option},
              !.display = InnerHTML(d, option),
              !.clsPlaceholder = FALSE])

\* The assignments of selectOption for an existing option, then this.close()
selectUpdate(s, d, option) ==
    close([unselectPrevious(s) EXCEPT
              !.selectedOption = option,
              !.selectedValue = DataValue(d, option),
              !.clsSelected = @ \cup {option},
              !.ariaSelected = @ \cup {option},
              !.display = InnerHTML(d, option),
              !.clsPlaceholder = FALSE])

\* selectOption that dispatches the event before it closes the dropdown
selectOptionDispatchFirst(D, d, option) ==
    IF option = NoOption
    THEN Outcome([D EXCEPT ![d] = [unselectPrevious(D[d]) EXCEPT
                                       !.selectedOption = NoOption]],
                 Idle, TRUE)
    ELSE Outcome([D EXCEPT ![d] = [selectUpdate(D[d], d, option) EXCEPT
                                       !.isOpen = D[d].isOpen]],
                 AtDispatch(d, option), FALSE)

\* selectOption(option, index) up to dispatchEvent.  For an undefined option
\* the read of option.dataset throws after this.selectedOption was assigned.
selectOption(D, d, option) ==
    IF option = NoOption
    THEN Outcome([D EXCEPT ![d] = [unselectPrevious(D[d]) EXCEPT
                                       !.selectedOption = NoOption]],
                 Idle, TRUE)
    ELSE Outcome([D EXCEPT ![d] = selectUpdate(D[d], d, option)],
                 AtDispatch(d, option), FALSE)

\* new CustomEvent('dropdown:select', {detail}): bubbles is not given, and a
\* CustomEvent does not bubble unless it is
CustomEvent(s, d, option) ==
    [ type    |-> "dropdown:select",
      bubbles |-> FALSE,
      target  |-> d,
      detail  |-> [value |-> s.selectedValue, option |-> option, dropdown |-> d] ]

\* document.addEventListener('dropdown:select', ...): a listener on the
\* document hears an event dispatched on a dropdown element only if it bubbles
documentHears(ev) == ev.bubbles

\* ---------------------------------------------------------- keyboard focus
\* updateFocusedOption(): the is-focused class moves to options[focusedIndex]
updateFocusedOption(s) ==
    [s EXCEPT !.clsFocused = IF s.focusedIndex >= 0 /\ s.focusedIndex < s.nopts
                             THEN {s.focusedIndex}
                             ELSE {}]

\* focusNextOption that counts "no focus" as the first option
focusNextOptionFromFirst(s) ==
    updateFocusedOption([s EXCEPT !.focusedIndex =
                                      Min(Max(s.focusedIndex, 0) + 1, s.nopts - 1)])

focusNextOption(s) ==
    updateFocusedOption([s EXCEPT !.focusedIndex = Min(s.focusedIndex + 1, s.nopts - 1)])

\* focusPreviousOption that wraps from the first option to the last
focusPreviousOptionWrap(s) ==
    updateFocusedOption(
        [s EXCEPT !.focusedIndex = IF s.focusedIndex <= 0 THEN s.nopts - 1
                                   ELSE s.focusedIndex - 1])

focusPreviousOption(s) ==
    updateFocusedOption([s EXCEPT !.focusedIndex = Max(s.focusedIndex - 1, 0)])

focusFirstOption(s) ==
    updateFocusedOption([s EXCEPT !.focusedIndex = 0])

focusLastOption(s) ==
    updateFocusedOption([s EXCEPT !.focusedIndex = s.nopts - 1])

\* this.options[i + 1]
optionAtNext(s, i) == IF i + 1 \in 0..(s.nopts - 1) THEN i + 1 ELSE NoOption

\* this.options[i]
optionAt(s, i) == IF i \in 0..(s.nopts - 1) THEN i ELSE NoOption

\* handleKeyboard(e) of dropdown d for e.key = key
handleKeyboard(D, d, key) ==
    LET s == D[d] IN
    IF ~s.isOpen /\ key # "Enter" /\ key # " " THEN Outcome(D, Idle, FALSE)
    ELSE CASE key \in {"Enter", " "} ->
                IF ~s.isOpen THEN open(D, d)
                ELSE IF s.focusedIndex >= 0
                     THEN selectOption(D, d, optionAt(s, s.focusedIndex))
                     ELSE Outcome(D, Idle, FALSE)
           [] key = "Escape" ->
                Outcome([D EXCEPT ![d] = close(s)], Idle, FALSE)
           [] key = "ArrowDown" ->
                IF ~s.isOpen THEN open(D, d)
                ELSE Outcome([D EXCEPT ![d] = focusNextOption(s)], Idle, FALSE)
           [] key = "ArrowUp" ->
                IF ~s.isOpen THEN open(D, d)
                ELSE Outcome([D EXCEPT ![d] = focusPreviousOption(s)], Idle, FALSE)
           [] key = "Home" ->
                IF s.isOpen
                THEN Outcome([D EXCEPT ![d] = focusFirstOption(s)], Idle, FALSE)
                ELSE Outcome(D, Idle, FALSE)
           [] key = "End" ->
                IF s.isOpen
                THEN Outcome([D EXCEPT ![d] = focusLastOption(s)], Idle, FALSE)
                ELSE Outcome(D, Idle, FALSE)
           [] OTHER -> Outcome(D, Idle, FALSE)

\* ----------------------------------------------------------------- clicks
\* toggle(e): e.stopPropagation(), then close() or open()
toggle(D, d) ==
    IF D[d].isOpen THEN Outcome([D EXCEPT ![d] = close(D[d])], Idle, FALSE)
    ELSE open(D, d)

\* handleClickOutside that closes only for clicks inside the dropdown
handleClickOutsideInverted(s, inside) ==
    IF ~s.isOpen THEN s
    ELSE IF inside THEN close(s) ELSE s

\* handleClickOutside(e); inside is this.dropdown.contains(e.target)
handleClickOutside(s, inside) ==
    IF ~s.isOpen THEN s
    ELSE IF ~inside THEN close(s) ELSE s

\* A click that reaches the document: the handleClickOutside listener of every
\* instance that still has it runs.  within is the dropdown whose subtree
\* holds the target, or Background.
documentClick(D, within) ==
    [x \in DOMAIN D |->
        IF D[x].attached THEN handleClickOutside(D[x], x = within) ELSE D[x]]

\* A click on the trigger of d: the trigger's listener is toggle, which stops
\* the propagation; once destroy() removed it the click bubbles to the document.
triggerClick(D, d) ==
    IF D[d].attached THEN toggle(D, d)
    ELSE Outcome(documentClick(D, d), Idle, FALSE)

\* A click on option i of d: the listener init() put on the option stops the
\* propagation and calls selectOption(option, index).  destroy() leaves it.
optionClick(D, d, i) == selectOption(D, d, optionAt(D[d], i))

\* A keydown inside d: handleKeyboard is the element's listener until destroy()
keydown(D, d, key) ==
    IF D[d].attached THEN handleKeyboard(D, d, key)
    ELSE Outcome(D, Idle, FALSE)

\* ---------------------------------------------------------------- destroy
destroy(s) ==
    [s EXCEPT !.attached = FALSE,
              !.isOpen = FALSE,
              !.clsOpen = FALSE]

Destroyed(D) == {d \in DOMAIN D : ~D[d].attached}

\* ================================================================ actions
Instances == DOMAIN dropdowns

TypeOK ==
    /\ pc \in {Idle} \cup {AtOpen(d) : d \in Instances}
                     \cup UNION {{AtDispatch(d, i) : i \in 0..(dropdowns[d].nopts - 1)} :
                                    d \in Instances}
    /\ threw \in BOOLEAN
    /\ Len(emitted) <= 1
    /\ Len(docHeard) <= 1

InitPage(layouts) ==
    /\ dropdowns \in {initDropdowns(layout) : layout \in layouts}
    /\ pc = Idle
    /\ emitted = <<>>
    /\ docHeard = <<>>
    /\ threw = FALSE

Init == InitPage(SmallLayouts(SmallInstances, SmallOptions))

InitLive == InitPage(Layouts(NumInstances))

\* A handler starts: its outcome becomes the state, nothing is dispatched yet.
Handle(r) ==
    /\ pc = Idle
    /\ dropdowns' = r.D
    /\ pc' = r.pc
    /\ threw' = r.threw
    /\ emitted' = <<>>
    /\ docHeard' = <<>>

ClickTrigger(d) == Handle(triggerClick(dropdowns, d))

ClickOption(d, i) == Handle(optionClick(dropdowns, d, i))

\* a click inside d's element that is on neither its trigger nor an option
ClickInside(d) == Handle(Outcome(documentClick(dropdowns, d), Idle, FALSE))

ClickBackground == Handle(Outcome(documentClick(dropdowns, Background), Idle, FALSE))

KeyDown(d, key) == Handle(keydown(dropdowns, d, key))

\* direct calls of the public methods (element._dropdownInstance.open() ...)
CallOpen(d) == Handle(open(dropdowns, d))

CallClose(d) == Handle(Outcome([dropdowns EXCEPT ![d] = close(dropdowns[d])], Idle, FALSE))

\* selectOption(this.options[i], i)
CallSelectOption(d, i) == Handle(selectOption(dropdowns, d, optionAt(dropdowns[d], i)))

CallDestroy(d) ==
    /\ d \in Destroyed(dropdowns) \/ Cardinality(Destroyed(dropdowns)) < MaxDestroyed
    /\ Handle(Outcome([dropdowns EXCEPT ![d] = destroy(dropdowns[d])], Idle, FALSE))

\* open() continues after the loop
OpenSelf ==
    /\ pc.kind = "open"
    /\ dropdowns' = [dropdowns EXCEPT ![pc.inst] = openSelf(dropdowns[pc.inst])]
    /\ pc' = Idle
    /\ UNCHANGED <<emitted, docHeard, threw>>

\* selectOption() continues: this.dropdown.dispatchEvent(event)
Dispatch ==
    /\ pc.kind = "dispatch"
    /\ LET ev == CustomEvent(dropdowns[pc.inst], pc.inst, pc.option) IN
        /\ emitted' = <<ev>>
        /\ docHeard' = IF documentHears(ev) THEN <<ev>> ELSE <<>>
    /\ pc' = Idle
    /\ UNCHANGED <<dropdowns, threw>>

NextLive ==
    \/ \E d \in Instances : ClickTrigger(d)
    \/ \E d \in Instances : \E i \in 0..(dropdowns[d].nopts - 1) : ClickOption(d, i)
    \/ \E d \in Instances : ClickInside(d)
    \/ ClickBackground
    \/ \E d \in Instances : \E key \in Keys : KeyDown(d, key)
    \/ \E d \in Instances : CallOpen(d)
    \/ \E d \in Instances : CallClose(d)
    \/ \E d \in Instances : \E i \in 0..(dropdowns[d].nopts - 1) : CallSelectOption(d, i)
    \/ OpenSelf
    \/ Dispatch

Next ==
    \/ NextLive
    \/ \E d \in Instances : CallDestroy(d)

Spec == Init /\ [][Next]_vars

SpecLive == InitLive /\ [][NextLive]_vars

\* ================================================================= claims
OpenInstances == {d \in Instances : dropdowns[d].isOpen}

\* The steps that perform a select operation of option i on dropdown d: a click
\* on the option, Enter or Space while d is open with the keyboard focus on i,
\* and a call of selectOption.
SelectStep(d, i) ==
    \/ ClickOption(d, i)
    \/ CallSelectOption(d, i)
    \/ /\ dropdowns[d].attached
       /\ dropdowns[d].isOpen
       /\ dropdowns[d].focusedIndex = i
       /\ KeyDown(d, "Enter") \/ KeyDown(d, " ")

ValidOptions(d) == 0..(dropdowns[d].nopts - 1)

\* C1: at most one instance has isOpen = true in every reachable state, the
\* point inside open() between the close-others loop and the instance's own
\* isOpen = true included: at that point no instance at all is open.
C1_MutualExclusion ==
    /\ Cardinality(OpenInstances) <= 1
    /\ pc.kind = "open" => OpenInstances = {}

\* C1 witness: open() of one instance stands between its loop and its own
\* state change while another instance has been opened and used before.
C1_Witness ==
    /\ pc.kind = "open"
    /\ \E e \in Instances : e # pc.inst /\ dropdowns[e].selectedOption # NoOption

\* What the select operations of option i on dropdown d leave behind when
\* they start in the current state: a click on the option, a call of
\* selectOption, and Enter or Space while d is open with the focus on i (d's
\* keydown listener still registered).
SelectOutcomes(d, i) ==
    {optionClick(dropdowns, d, i), selectOption(dropdowns, d, optionAt(dropdowns[d], i))}
        \cup (IF dropdowns[d].attached /\ dropdowns[d].isOpen
                                          /\ dropdowns[d].focusedIndex = i
              THEN {keydown(dropdowns, d, "Enter"), keydown(dropdowns, d, " ")}
              ELSE {})

\* C2: a select operation of a valid option i on an instance that has not been
\* destroyed, open or closed, ends with isOpen = false, selectedOption the
\* option i, selectedValue its value, focusedIndex none, option i the only
\* option marked selected, and the trigger showing option i's label.
C2_SelectResult ==
    \A d \in Instances : \A i \in ValidOptions(d) :
        (pc = Idle /\ dropdowns[d].attached) =>
            \A r \in SelectOutcomes(d, i) :
                LET s == r.D[d] IN
                /\ ~s.isOpen
                /\ ~s.clsOpen
                /\ s.selectedOption = i
                /\ s.selectedValue = DataValue(d, i)
                /\ s.focusedIndex = NoIndex
                /\ s.clsSelected = {i}
                /\ s.ariaSelected = {i}
                /\ s.display = InnerHTML(d, i)
                /\ ~s.clsPlaceholder

\* C2 witness: a select operation of the second option has run on an instance
\* that was not destroyed and stands before its dispatchEvent.
C2_Witness ==
    \E d \in Instances :
        /\ dropdowns[d].attached
        /\ dropdowns[d].selectedOption = 1
        /\ dropdowns[d].clsSelected = {1}
        /\ pc = AtDispatch(d, 1)

\* The event a select operation of option i on dropdown d is to dispatch
SelectionNotification(d, i) ==
    [ type    |-> "dropdown:select",
      bubbles |-> FALSE,
      target  |-> d,
      detail  |-> [value |-> DataValue(d, i), option |-> i, dropdown |-> d] ]

\* C3: every successful select operation dispatches exactly one
\* 'dropdown:select' event on the instance's element, carrying the option's
\* value, the option and the dropdown; at the dispatch the instance is already
\* closed and its selection is the carried one; no other step dispatches.
C3_OneNotificationPerSelect ==
    /\ [](\A d \in Instances : \A i \in ValidOptions(d) :
            pc = Idle => \A r \in SelectOutcomes(d, i) :
                            r.pc = AtDispatch(d, i) /\ ~r.threw)
    /\ [][/\ pc.kind = "dispatch" =>
               /\ emitted' = <<SelectionNotification(pc.inst, pc.option)>>
               /\ pc' = Idle
               /\ ~dropdowns[pc.inst].isOpen
               /\ dropdowns[pc.inst].selectedOption = pc.option
               /\ dropdowns[pc.inst].selectedValue = DataValue(pc.inst, pc.option)
          /\ pc.kind # "dispatch" => emitted' = <<>>]_vars

\* C3 witness: a notification of a select operation has been dispatched.
C3_Witness ==
    \E d \in Instances : \E i \in ValidOptions(d) :
        /\ emitted = <<SelectionNotification(d, i)>>
        /\ pc = Idle
        /\ dropdowns[d].selectedOption = i

\* C4 (as claimed): a 'dropdown:select' listener on the document is invoked
\* once for every selection: whatever a handler dispatched on a dropdown
\* element has also been delivered to the document's listener.
C4_DocumentListenerHears == docHeard = emitted

\* What the select operation sets: the selected option, its value, the
\* trigger's label and the marks of the selection.
Selection(s) ==
    <<s.selectedOption, s.selectedValue, s.display, s.clsPlaceholder,
      s.clsSelected, s.ariaSelected>>

\* C5: d's selected option, selected value and trigger label change only in a
\* step that is a select operation on d: every other step (open, close by
\* toggle, Escape, outside click, another instance opening, keyboard
\* navigation, destroy, anything done to another instance) leaves them.
C5_SelectionOnlyBySelect ==
    [][\A d \in Instances :
          Selection(dropdowns'[d]) # Selection(dropdowns[d]) =>
              \E i \in ValidOptions(d) : SelectStep(d, i)]_vars

\* C5 witness: an instance with a selection is open and its keyboard focus
\* has been moved off the selected option; the selection is still there.
C5_Witness ==
    \E d \in Instances :
        /\ dropdowns[d].isOpen
        /\ dropdowns[d].selectedOption # NoOption
        /\ dropdowns[d].selectedValue = DataValue(d, dropdowns[d].selectedOption)
        /\ dropdowns[d].focusedIndex # dropdowns[d].selectedOption

\* C6: when open() takes an instance to Open its focusedIndex is the index of
\* the selected option, or none without a selection; when close() takes an
\* instance from Open to Closed its focusedIndex is none.
C6_FocusAfterOpenAndClose ==
    [][/\ pc.kind = "open" =>
            LET s == dropdowns'[pc.inst] IN
            /\ s.isOpen
            /\ s.focusedIndex = dropdowns[pc.inst].selectedOption
            /\ s.selectedOption = NoOption => s.focusedIndex = NoIndex
       /\ \A d \in Instances :
            (dropdowns[d].isOpen /\ ~dropdowns'[d].isOpen /\ ~CallDestroy(d)) =>
                dropdowns'[d].focusedIndex = NoIndex]_vars

\* C6 witness: an instance has been opened with a selection and its
\* focusedIndex is that selection.
C6_Witness ==
    \E d \in Instances :
        /\ pc = Idle
        /\ dropdowns[d].isOpen
        /\ dropdowns[d].selectedOption # NoOption
        /\ dropdowns[d].focusedIndex = dropdowns[d].selectedOption

\* C7 (as claimed): for an option list of any length, zero included,
\* focusedIndex is none or an index of the list in every reachable state, and
\* Enter/Space never runs selectOption with an option that does not exist.
C7_FocusedIndexInRange ==
    /\ \A d \in Instances :
          dropdowns[d].focusedIndex \in {NoIndex} \cup ValidOptions(d)
    /\ ~threw

ActivationKeys == {"Enter", " ", "ArrowDown", "ArrowUp"}

\* C8 (as claimed): while an instance is Closed, a click on its trigger and
\* each of the keys Enter, Space, ArrowDown, ArrowUp make it open: every other
\* instance is closed, then the instance is Open with focusedIndex at its
\* selected option or none.
C8_ActivationOpens ==
    \A d \in Instances :
        (pc = Idle /\ dropdowns[d].attached /\ ~dropdowns[d].isOpen) =>
            \A r \in {triggerClick(dropdowns, d)}
                        \cup {keydown(dropdowns, d, key) : key \in ActivationKeys} :
                /\ r.pc = AtOpen(d)
                /\ \A e \in Instances \ {d} : ~r.D[e].isOpen
                /\ openSelf(r.D[d]).isOpen
                /\ openSelf(r.D[d]).focusedIndex = dropdowns[d].selectedOption

\* The page of the scenario: every dropdown has three options, none was
\* selected and no handler has thrown or dispatched.
ScenarioPage ==
    /\ \A d \in Instances :
          /\ dropdowns[d].nopts = 3
          /\ dropdowns[d].selectedOption = NoOption
          /\ dropdowns[d].selectedValue = Null
    /\ emitted = <<>>
    /\ ~threw

\* ... between handlers, with exactly the instances in opened open and the
\* keyboard focus of the second instance (B) at focus
ScenarioAt(opened, focus) ==
    /\ ScenarioPage
    /\ pc = Idle
    /\ OpenInstances = opened
    /\ \A d \in Instances :
          dropdowns[d].focusedIndex = IF d = 2 THEN focus ELSE NoIndex

\* ... inside open() of instance d, after its loop
ScenarioOpening(d) ==
    /\ ScenarioPage
    /\ pc = AtOpen(d)
    /\ OpenInstances = {}

\* ... after the select operation of option i on B: every instance is closed,
\* B has option i selected, A and C have no selection
ScenarioSelected(i) ==
    /\ OpenInstances = {}
    /\ ~threw
    /\ \A d \in Instances :
          /\ dropdowns[d].nopts = 3
          /\ dropdowns[d].focusedIndex = NoIndex
          /\ dropdowns[d].selectedOption = IF d = 2 THEN i ELSE NoOption
          /\ dropdowns[d].selectedValue = IF d = 2 THEN DataValue(d, i) ELSE Null

\* The scenario step by step, with instances A = 1, B = 2, C = 3: open A; open
\* B; ArrowDown on B, focusedIndex f1; ArrowDown on B, focusedIndex f2; Enter
\* on B selects option f2, closes B and dispatches one notification.
ScenarioSteps(f1, f2) ==
    /\ (ScenarioAt({}, NoIndex) /\ CallOpen(1)) => ScenarioOpening(1)'
    /\ ScenarioOpening(1) => ScenarioAt({1}, NoIndex)'
    /\ (ScenarioAt({1}, NoIndex) /\ CallOpen(2)) => ScenarioOpening(2)'
    /\ ScenarioOpening(2) => ScenarioAt({2}, NoIndex)'
    /\ (ScenarioAt({2}, NoIndex) /\ KeyDown(2, "ArrowDown")) => ScenarioAt({2}, f1)'
    /\ (ScenarioAt({2}, f1) /\ KeyDown(2, "ArrowDown")) => ScenarioAt({2}, f2)'
    /\ (ScenarioAt({2}, f2) /\ KeyDown(2, "Enter")) =>
           (ScenarioSelected(f2) /\ pc = AtDispatch(2, f2) /\ emitted = <<>>)'
    /\ (ScenarioSelected(f2) /\ pc = AtDispatch(2, f2) /\ emitted = <<>>) =>
           (ScenarioSelected(f2) /\ pc = Idle
                /\ emitted = <<SelectionNotification(2, f2)>>)'

\* C9 (as claimed): in the scenario the two ArrowDown presses give
\* B.focusedIndex = 1 and then 2, and Enter selects B's third option (index 2).
C9_ScenarioAsClaimed == [][ScenarioSteps(1, 2)]_vars

\* C9 (amended): in the scenario the two ArrowDown presses give
\* B.focusedIndex = 0 and then 1, and Enter selects B's second option
\* (index 1): B.selectedOption = 1, B closed, one notification carrying the
\* value of B's second option.
C9_Scenario == [][ScenarioSteps(0, 1)]_vars

\* C9 witness: the end of the scenario: B closed with its second option
\* selected, its notification dispatched, A and C closed without a selection.
C9_Witness ==
    /\ ScenarioSelected(1)
    /\ pc = Idle
    /\ emitted = <<SelectionNotification(2, 1)>>

\* C10 (as claimed): an instance that is Open when a click occurs whose target
\* is outside its element (the background, or the inside, the trigger or an
\* option of another instance) is Closed when the click has been handled; a
\* click inside its own element is left alone by handleClickOutside.
C10_OutsideClickCloses ==
    [][\A a \in Instances :
          /\ ( /\ dropdowns[a].isOpen
               /\ \/ ClickBackground
                  \/ \E b \in Instances \ {a} :
                        \/ ClickInside(b)
                        \/ ClickTrigger(b)
                        \/ \E i \in ValidOptions(b) : ClickOption(b, i) )
                => ~dropdowns'[a].isOpen
          /\ handleClickOutside(dropdowns[a], TRUE) = dropdowns[a]]_vars

\* C11: a click outside every dropdown element closes an open instance D (one
\* that was not destroyed) without selecting anything: afterwards D.isOpen =
\* false, D.focusedIndex = none, D's selected option, selected value and
\* trigger label are what they were (without a prior selection: none and the
\* placeholder), and no notification is dispatched.
C11_OutsideClickKeepsSelection ==
    /\ [](\A d \in Instances :
            (pc = Idle /\ dropdowns[d].attached /\ dropdowns[d].isOpen) =>
                LET s == documentClick(dropdowns, Background)[d] IN
                /\ ~s.isOpen
                /\ ~s.clsOpen
                /\ s.focusedIndex = NoIndex
                /\ Selection(s) = Selection(dropdowns[d])
                /\ dropdowns[d].selectedOption = NoOption =>
                      /\ s.selectedOption = NoOption
                      /\ s.display = PlaceholderText(d)
                      /\ s.clsPlaceholder)
    /\ [][ClickBackground => (pc' = Idle /\ emitted' = <<>> /\ ~threw')]_vars

\* C11 witness: an instance without a selection is open with the keyboard
\* focus on an option: the state in which the outside click closes it.
C11_Witness ==
    \E d \in Instances :
        /\ pc = Idle
        /\ dropdowns[d].attached
        /\ dropdowns[d].isOpen
        /\ dropdowns[d].selectedOption = NoOption
        /\ dropdowns[d].display = PlaceholderText(d)
        /\ dropdowns[d].focusedIndex # NoIndex

\* C12 (as claimed): selectOption called with an index that designates no
\* option (options[i] is undefined) leaves the whole state unchanged, raises
\* no error and dispatches nothing.
C12_OutOfRangeSelectIgnored ==
    \A d \in Instances :
        pc = Idle =>
            LET r == selectOption(dropdowns, d, optionAt(dropdowns[d], dropdowns[d].nopts)) IN
            /\ r.D = dropdowns
            /\ ~r.threw
            /\ r.pc = Idle

\* C13 (as claimed): once destroy() was called on an instance it is Closed,
\* and no later event that targets it (trigger click, keydown, click on one of
\* its options, click outside it) changes its state or dispatches a
\* notification for it.
C13_DestroyedIgnoresEvents ==
    [][\A d \in Instances :
          /\ CallDestroy(d) => ~dropdowns'[d].isOpen
          /\ ( /\ ~dropdowns[d].attached
               /\ \/ ClickTrigger(d)
                  \/ ClickBackground
                  \/ \E key \in Keys : KeyDown(d, key)
                  \/ \E i \in ValidOptions(d) : ClickOption(d, i) )
                => (dropdowns'[d] = dropdowns[d] /\ pc' = Idle)]_vars

\* C14 (as claimed): after destroy(), calls of open(), close() and
\* selectOption() on the instance change nothing, of this or any other
\* instance, dispatch nothing and raise no error.
C14_DestroyedMethodsNoOps ==
    \A d \in Instances :
        (pc = Idle /\ ~dropdowns[d].attached) =>
            /\ open(dropdowns, d) = Outcome(dropdowns, Idle, FALSE)
            /\ close(dropdowns[d]) = dropdowns[d]
            /\ \A i \in ValidOptions(d) :
                  selectOption(dropdowns, d, optionAt(dropdowns[d], i))
                      = Outcome(dropdowns, Idle, FALSE)

\* C15 (as claimed): in every reachable state, after destroy() too, the
\* trigger's aria-expanded is "true" exactly when isOpen is true, and the
\* options with aria-selected = "true" are exactly the selected option.
C15_AriaInSync ==
    \A d \in Instances :
        /\ (dropdowns[d].ariaExpanded = "true") <=> dropdowns[d].isOpen
        /\ dropdowns[d].ariaSelected =
              {i \in ValidOptions(d) : i = dropdowns[d].selectedOption}

\* C16: while an instance is Open with focusedIndex f (none = -1) and
\* last = length - 1, ArrowDown sets focusedIndex to min(f + 1, last), ArrowUp
\* to max(f - 1, 0), Home to 0 and End to last; afterwards the options carrying
\* the focus highlight are exactly the option at the new focusedIndex; none of
\* these keys changes isOpen or the selection; while Closed, Home and End
\* change nothing.
C16_KeyboardNavigation ==
    \A d \in Instances :
        (pc = Idle /\ dropdowns[d].attached) =>
            LET s    == dropdowns[d]
                f    == s.focusedIndex
                last == s.nopts - 1
                Moves(key, target) ==
                    LET r == keydown(dropdowns, d, key) IN
                    /\ r.pc = Idle
                    /\ ~r.threw
                    /\ r.D[d].focusedIndex = target
                    /\ r.D[d].clsFocused = {i \in ValidOptions(d) : i = target}
                    /\ r.D[d].isOpen
                    /\ Selection(r.D[d]) = Selection(s)
            IN  IF s.isOpen
                THEN /\ Moves("ArrowDown", IF f + 1 < last THEN f + 1 ELSE last)
                     /\ Moves("ArrowUp", IF f - 1 > 0 THEN f - 1 ELSE 0)
                     /\ Moves("Home", 0)
                     /\ Moves("End", last)
                ELSE /\ keydown(dropdowns, d, "Home") = Outcome(dropdowns, Idle, FALSE)
                     /\ keydown(dropdowns, d, "End") = Outcome(dropdowns, Idle, FALSE)

\* C16 witness: an open three-option instance whose focus was moved to the
\* last option while another option is the selected one.
C16_Witness ==
    \E d \in Instances :
        /\ pc = Idle
        /\ dropdowns[d].isOpen
        /\ dropdowns[d].nopts = 3
        /\ dropdowns[d].selectedOption = 0
        /\ dropdowns[d].focusedIndex = 2
        /\ dropdowns[d].clsFocused = {2}

\* C17 (as claimed): in every reachable state a Closed instance has
\* focusedIndex = none and no option with the focus highlight, however it
\* became closed, destroy() included.
C17_ClosedHasNoFocus ==
    \A d \in Instances :
        ~dropdowns[d].isOpen =>
            /\ dropdowns[d].focusedIndex = NoIndex
            /\ dropdowns[d].clsFocused = {}

\* C18: open() on an Open instance and close() on a Closed instance change
\* nothing, of that instance, of the others or of the notifications, so that
\* open(); open() is open() and close(); close() is close(); a click on the
\* trigger of an instance (one that was not destroyed) always flips isOpen.
C18_IdempotentOpenClose ==
    \A d \in Instances :
        pc = Idle =>
            /\ dropdowns[d].isOpen =>
                  open(dropdowns, d) = Outcome(dropdowns, Idle, FALSE)
            /\ ~dropdowns[d].isOpen =>
                  close(dropdowns[d]) = dropdowns[d]
            /\ close(close(dropdowns[d])) = close(dropdowns[d])
            /\ LET r == open(dropdowns, d) IN
               r.pc = AtOpen(d) =>
                  LET D2 == [r.D EXCEPT ![d] = openSelf(r.D[d])] IN
                  open(D2, d) = Outcome(D2, Idle, FALSE)
            /\ dropdowns[d].attached =>
                  LET r == triggerClick(dropdowns, d)
                      after == IF r.pc = AtOpen(d) THEN openSelf(r.D[d]) ELSE r.D[d]
                  IN  /\ after.isOpen = ~dropdowns[d].isOpen
                      /\ ~r.threw
                      /\ r.pc.kind # "dispatch"

\* C18 witness: an instance is open with the keyboard focus moved away from
\* where open() puts it, so that a second run of open()'s body would show.
C18_Witness ==
    \E d \in Instances, x \in Instances :
        /\ pc = Idle
        /\ x # d
        /\ dropdowns[d].isOpen
        /\ dropdowns[d].focusedIndex # NoIndex
        /\ dropdowns[d].selectedOption = NoOption
        /\ ~dropdowns[x].isOpen
        /\ dropdowns[x].selectedOption # NoOption

\* The steps that are an event on, or a call of an operation of, instance x,
\* with the rest of an open() or selectOption() of x.
OperationOn(x) ==
    \/ ClickTrigger(x)
    \/ ClickInside(x)
    \/ \E i \in ValidOptions(x) : ClickOption(x, i) \/ CallSelectOption(x, i)
    \/ \E key \in Keys : KeyDown(x, key)
    \/ CallOpen(x)
    \/ CallClose(x)
    \/ CallDestroy(x)
    \/ pc.inst = x /\ (OpenSelf \/ Dispatch)

\* What an operation on another instance may do to y: nothing, or close it.
OnlyClosed(y) ==
    \/ dropdowns'[y] = dropdowns[y]
    \/ /\ dropdowns[y].isOpen
       /\ ~dropdowns'[y].isOpen
       /\ dropdowns'[y].focusedIndex = NoIndex
       /\ Selection(dropdowns'[y]) = Selection(dropdowns[y])

\* C19: an event on or an operation of instance x never changes the selected
\* option, selected value, label or selected markings of another instance y;
\* all it can do to y is close it (isOpen true to false, focusedIndex reset
\* to none), and a y that is already Closed is left entirely unchanged.
C19_OtherInstancesOnlyClosed ==
    [][\A y \in Instances :
          \/ OnlyClosed(y)
          \/ ~(\E x \in Instances \ {y} : OperationOn(x))]_vars

\* C19 witness: y was open, with a selection and the focus on an option,
\* and the opening of x closed it: y keeps its selection, x is open.
C19_Witness ==
    \E x \in Instances, y \in Instances :
        /\ x # y
        /\ dropdowns[x].isOpen
        /\ ~dropdowns[y].isOpen
        /\ dropdowns[y].selectedOption # NoOption
        /\ dropdowns[y].focusedIndex = NoIndex
        /\ dropdowns[x].selectedOption = NoOption

\* C20: while an instance is Open with focusedIndex = none, Enter and Space
\* select nothing: it stays Open, nothing of the page changes and nothing is
\* dispatched.  Enter and Space select (and close) only when focusedIndex is
\* the index of an option, and then they select exactly that option.
C20_EnterNeedsFocus ==
    \A d \in Instances, key \in {"Enter", " "} :
        (pc = Idle /\ dropdowns[d].attached /\ dropdowns[d].isOpen) =>
            LET f == dropdowns[d].focusedIndex
                r == keydown(dropdowns, d, key)
            IN  /\ f = NoIndex => r = Outcome(dropdowns, Idle, FALSE)
                /\ f \in ValidOptions(d) =>
                      /\ r.D[d].selectedOption = f
                      /\ r.D[d].selectedValue = DataValue(d, f)
                      /\ ~r.D[d].isOpen
                      /\ r.pc = AtDispatch(d, f)
                /\ f \notin ValidOptions(d) =>
                      /\ Selection(r.D[d]) = Selection(dropdowns[d])
                      /\ r.D[d].isOpen
                      /\ r.pc = Idle

\* C20 witness: an open instance with options and focusedIndex = none, the
\* state open() leaves when nothing is selected.
C20_Witness ==
    \E d \in Instances :
        /\ pc = Idle
        /\ dropdowns[d].attached
        /\ dropdowns[d].isOpen
        /\ dropdowns[d].nopts > 1
        /\ dropdowns[d].focusedIndex = NoIndex
        /\ dropdowns[d].selectedOption = NoOption

====
